---- MODULE Spec2Model ----
(***************************************************************************)
(* Model of packages/discord.js/src/util/Channels.js: the channel factory  *)
(* createChannel with the guild channel caches and the thread caches it    *)
(* registers into, and the forum-tag and default-reaction transforms.      *)
(*                                                                         *)
(* JavaScript values are modelled as tokens: the string "undefined" is the *)
(* absent value, "true" / "false" are the booleans, every other string is  *)
(* a truthy value (an identifier, an array).                               *)
(***************************************************************************)
EXTENDS Naturals, Sequences, FiniteSets, TLC

VARIABLES guildCache, threadCache, nextRef, call, prev, lastRegistered, xf

vars == <<guildCache, threadCache, nextRef, call, prev, lastRegistered, xf>>

\* JavaScript truthiness of a token (the conditions of lines 36, 37, 45, 71, 84).
Truthy(v) == v \notin {"undefined", "null", "false", ""}

(***************************************************************************)
(* The discriminator: ChannelType of discord-api-types, by member name.    *)
(* "Unknown" stands for a value that is no member createChannel handles.   *)
(***************************************************************************)
GuildScopedTypes ==
  {"GuildText", "GuildVoice", "GuildCategory", "GuildAnnouncement",
   "GuildStageVoice", "AnnouncementThread", "PublicThread", "PrivateThread",
   "GuildDirectory", "GuildForum", "GuildMedia"}

ChannelTypes == GuildScopedTypes \cup {"DM", "GroupDM", "Unknown"}

\* The lazily required constructors (lines 6-16), by class name.
GuildVariants ==
  {"CategoryChannel", "AnnouncementChannel", "StageChannel", "TextChannel",
   "ThreadChannel", "VoiceChannel", "DirectoryChannel", "ForumChannel",
   "MediaChannel"}

UserVariants == {"DMChannel", "PartialGroupDMChannel"}

(***************************************************************************)
(* The collaborators: the client's guild cache, the guilds, their channel  *)
(* managers and the parent channels with their thread caches.              *)
(***************************************************************************)
\* client.guilds.cache: the guilds the client knows, keyed by their id.
ClientGuilds == {"g1", "g2"}

\* Guild objects a caller can supply; g3 is a guild without a channel manager.
GuildObjects == {"g1", "g2", "g3"}

\* guild.channels: whether the guild exposes a channel cache (line 84, `?.`).
HasChannels(g) == g \in {"g1", "g2"}

CacheGuilds == {g \in GuildObjects : HasChannels(g)}

ChannelIds == {"c1", "c2"}

\* Channels that own a thread cache (parent.threads.cache), and their guild.
ParentChannels == {"p1", "p2", "p3"}

ParentGuild(p) == IF p = "p3" THEN "g2" ELSE "g1"

\* The absent result (`let channel;` of line 35, never assigned).
Undefined == [ref |-> 0, variant |-> "undefined", id |-> "undefined", guild |-> "undefined"]

\* new Variant(guild, data, client): the instance exposes the payload's id and
\* keeps its owner; ref is the identity of the freshly allocated object.
Construct(variant, guild, data, ref) ==
  [ref |-> ref, variant |-> variant, id |-> data.id, guild |-> guild]

\* channel.parent of a thread: the parent channel named by the payload, when the
\* thread's guild can navigate to it; absent otherwise.
ThreadParent(channel, data) ==
  IF /\ Truthy(channel.guild)
     /\ HasChannels(channel.guild)
     /\ data.parent_id \in ParentChannels
     /\ ParentGuild(data.parent_id) = channel.guild
  THEN data.parent_id
  ELSE "undefined"

\* client.guilds.cache.get(data.guild_id)
ClientGuildLookup(guildId) ==
  IF guildId \in ClientGuilds THEN guildId ELSE "undefined"

(***************************************************************************)
(* The options bag.  The typedef documents the key allowFromUnknownGuild;  *)
(* the function destructures the key allowUnknownGuild.  given = FALSE is  *)
(* a call without the fourth argument.                                     *)
(***************************************************************************)
NoExtras == [given |-> FALSE, allowFromUnknownGuild |-> "undefined", allowUnknownGuild |-> "undefined"]

Bag(documented, destructured) ==
  [given |-> TRUE, allowFromUnknownGuild |-> documented, allowUnknownGuild |-> destructured]

\* { allowUnknownGuild } = {} : the default applies to a missing argument.
DestructureExtras(extras) ==
  IF extras.given THEN extras.allowUnknownGuild ELSE "undefined"

(***************************************************************************)
(* createChannel, lines 34-88.                                             *)
(***************************************************************************)
\* Mutant of ResolveGuild: the lookup by the payload's guild id preferred to
\* the supplied guild.
ResolveGuild_LookupFirst(data, guild) ==
  IF ClientGuildLookup(data.guild_id) # "undefined"
  THEN ClientGuildLookup(data.guild_id)
  ELSE guild

\* Line 43: guild ??= client.guilds.cache.get(data.guild_id)
ResolveGuild(data, guild) ==
  IF guild \notin {"undefined", "null"} THEN guild ELSE ClientGuildLookup(data.guild_id)

\* Mutant of IsUserScoped: user-scoped whenever no guild can be resolved.
IsUserScoped_Unresolved(data, guild) == ~Truthy(ResolveGuild(data, guild))

\* Mutant of IsUserScoped: the test of the supplied guild missing.
IsUserScoped_NoGuildTest(data, guild) == ~Truthy(data.guild_id)

\* Line 36: no guild id in the payload and no guild supplied.
IsUserScoped(data, guild) == ~Truthy(data.guild_id) /\ ~Truthy(guild)

\* Mutant of UserVariant: the else branch without its group-DM test.
UserVariant_NoElseIf(data) ==
  IF (Truthy(data.recipients) /\ data.type # "GroupDM") \/ data.type = "DM"
  THEN "DMChannel"
  ELSE "PartialGroupDMChannel"

\* Mutant of UserVariant: the recipients test without the group-DM exclusion.
UserVariant_NoGroupExclusion(data) ==
  IF Truthy(data.recipients) \/ data.type = "DM"
  THEN "DMChannel"
  ELSE IF data.type = "GroupDM" THEN "PartialGroupDMChannel" ELSE "undefined"

\* Lines 37-41: the user-scoped branch.
UserVariant(data) ==
  IF (Truthy(data.recipients) /\ data.type # "GroupDM") \/ data.type = "DM"
  THEN "DMChannel"
  ELSE IF data.type = "GroupDM" THEN "PartialGroupDMChannel" ELSE "undefined"

\* Mutant of EntersSwitch: the guild test dropped.
EntersSwitch_Always(guild, allow) == TRUE

\* Line 45: if (guild || allowUnknownGuild)
EntersSwitch(guild, allow) == Truthy(guild) \/ Truthy(allow)

\* Lines 67-69: the case labels of the thread branch.
IsThreadCase(type) == type \in {"AnnouncementThread", "PublicThread", "PrivateThread"}

\* Mutant of GuildVariant: the break after the GuildDirectory case missing, so
\* that it falls through to the GuildForum case.
GuildVariant_Fallthrough(type) ==
  CASE type = "GuildText" -> "TextChannel"
    [] type = "GuildVoice" -> "VoiceChannel"
    [] type = "GuildCategory" -> "CategoryChannel"
    [] type = "GuildAnnouncement" -> "AnnouncementChannel"
    [] type = "GuildStageVoice" -> "StageChannel"
    [] IsThreadCase(type) -> "ThreadChannel"
    [] type = "GuildDirectory" -> "ForumChannel"
    [] type = "GuildForum" -> "ForumChannel"
    [] type = "GuildMedia" -> "MediaChannel"
    [] OTHER -> "undefined"

\* Mutant of GuildVariant: a default case that builds a text channel.
GuildVariant_DefaultText(type) ==
  CASE type = "GuildText" -> "TextChannel"
    [] type = "GuildVoice" -> "VoiceChannel"
    [] type = "GuildCategory" -> "CategoryChannel"
    [] type = "GuildAnnouncement" -> "AnnouncementChannel"
    [] type = "GuildStageVoice" -> "StageChannel"
    [] IsThreadCase(type) -> "ThreadChannel"
    [] type = "GuildDirectory" -> "DirectoryChannel"
    [] type = "GuildForum" -> "ForumChannel"
    [] type = "GuildMedia" -> "MediaChannel"
    [] OTHER -> "TextChannel"

\* Lines 46-83: the switch on data.type.
GuildVariant(type) ==
  CASE type = "GuildText" -> "TextChannel"
    [] type = "GuildVoice" -> "VoiceChannel"
    [] type = "GuildCategory" -> "CategoryChannel"
    [] type = "GuildAnnouncement" -> "AnnouncementChannel"
    [] type = "GuildStageVoice" -> "StageChannel"
    [] IsThreadCase(type) -> "ThreadChannel"
    [] type = "GuildDirectory" -> "DirectoryChannel"
    [] type = "GuildForum" -> "ForumChannel"
    [] type = "GuildMedia" -> "MediaChannel"
    [] OTHER -> "undefined"

\* Mutant of RegistersThread: the parent's thread cache is written in every case
\* of the switch.
RegistersThread_AnyType(type, allow) == ~Truthy(allow)

\* Mutant of RegistersThread: the negation of allowUnknownGuild missing.
RegistersThread_NoNegation(type, allow) == IsThreadCase(type) /\ Truthy(allow)

\* Line 71: if (!allowUnknownGuild) channel.parent?.threads.cache.set(...)
RegistersThread(type, allow) == IsThreadCase(type) /\ ~Truthy(allow)

\* Mutant of RegistersChannel: the allowUnknownGuild test missing.
RegistersChannel_NoAllowTest(channel, allow) == channel # Undefined

\* Mutant of RegistersChannel: thread channels left to the thread cache alone.
RegistersChannel_NotThreads(channel, allow) ==
  channel # Undefined /\ channel.variant # "ThreadChannel" /\ ~Truthy(allow)

\* Line 84: if (channel && !allowUnknownGuild) guild.channels?.cache.set(...)
RegistersChannel(channel, allow) == channel # Undefined /\ ~Truthy(allow)

\* Mutant of CacheSet: the cache is replaced by one holding only the new entry.
CacheSet_Replace(caches, owner, channel) ==
  [caches EXCEPT ![owner] = [[id \in DOMAIN @ |-> Undefined] EXCEPT ![channel.id] = channel]]

\* cache.set(channel.id, channel) on one cache of a family of caches.
CacheSet(caches, owner, channel) ==
  [caches EXCEPT ![owner] = [@ EXCEPT ![channel.id] = channel]]

(***************************************************************************)
(* The whole call on caches gc (guild channel caches) and tc (thread       *)
(* caches); ref is the identity the next constructed object gets.  The     *)
(* result gives the returned channel, whether the call returned or raised  *)
(* (a property read on undefined), how many constructors it invoked, and   *)
(* the caches after the call.                                              *)
(***************************************************************************)
createChannel(data, guildArg, extras, gc, tc, ref) ==
  LET allow == DestructureExtras(extras) IN
  IF IsUserScoped(data, guildArg)
  THEN LET v == UserVariant(data) IN
       [channel |-> IF v = "undefined" THEN Undefined ELSE Construct(v, "undefined", data, ref),
        outcome |-> "returned", constructed |-> IF v = "undefined" THEN 0 ELSE 1,
        guildCache |-> gc, threadCache |-> tc]
  ELSE LET guild == ResolveGuild(data, guildArg) IN
       IF ~EntersSwitch(guild, allow)
       THEN [channel |-> Undefined, outcome |-> "returned", constructed |-> 0,
             guildCache |-> gc, threadCache |-> tc]
       ELSE LET v == GuildVariant(data.type)
                channel == IF v = "undefined" THEN Undefined ELSE Construct(v, guild, data, ref)
                parent == IF channel # Undefined /\ RegistersThread(data.type, allow)
                          THEN ThreadParent(channel, data)
                          ELSE "undefined"
                tc2 == IF parent # "undefined" THEN CacheSet(tc, parent, channel) ELSE tc
                reg == RegistersChannel(channel, allow)
                n == IF v = "undefined" THEN 0 ELSE 1
            IN  IF reg /\ ~Truthy(guild)
                THEN \* guild.channels read on an undefined guild: TypeError
                     [channel |-> Undefined, outcome |-> "raised", constructed |-> n,
                      guildCache |-> gc, threadCache |-> tc2]
                ELSE [channel |-> channel, outcome |-> "returned", constructed |-> n,
                      guildCache |-> IF reg /\ HasChannels(guild) THEN CacheSet(gc, guild, channel) ELSE gc,
                      threadCache |-> tc2]

(***************************************************************************)
(* The transforms, lines 96-153.  A wire tag is {id, name, moderated,      *)
(* emoji_id, emoji_name}; an application tag is {id, name, moderated,      *)
(* emoji}, where emoji is null (kind "null") or an object {id, name}.      *)
(***************************************************************************)
\* v is null or undefined (the test of ?? and of ?.).
Nullish(v) == v \in {"undefined", "null"}

\* a ?? b
Coalesce(a, b) == IF Nullish(a) THEN b ELSE a

\* The emoji value null.
NullEmoji == [kind |-> "null", id |-> "undefined", name |-> "undefined"]

\* The object literal { id, name } of lines 103-106.
EmojiObject(id, name) == [kind |-> "object", id |-> id, name |-> name]

\* Lines 102-107: (tag.emoji_id ?? tag.emoji_name) ? { id, name } : null
TagEmoji(emojiId, emojiName) ==
  IF Truthy(Coalesce(emojiId, emojiName)) THEN EmojiObject(emojiId, emojiName) ELSE NullEmoji

\* Lines 96-109.
transformAPIGuildForumTag(tag) ==
  [id |-> tag.id, name |-> tag.name, moderated |-> tag.moderated,
   emoji |-> TagEmoji(tag.emoji_id, tag.emoji_name)]

\* tag.emoji?.id and tag.emoji?.name (lines 122-123): undefined on a null emoji.
EmojiId(emoji) == IF emoji.kind = "null" THEN "undefined" ELSE emoji.id

EmojiName(emoji) == IF emoji.kind = "null" THEN "undefined" ELSE emoji.name

\* Mutant of transformGuildForumTag: emoji_name read from emoji.id.
transformGuildForumTag_NameFromId(tag) ==
  [id |-> tag.id, name |-> tag.name, moderated |-> tag.moderated,
   emoji_id |-> Coalesce(EmojiId(tag.emoji), "null"),
   emoji_name |-> Coalesce(EmojiId(tag.emoji), "null")]

\* Lines 117-125.
transformGuildForumTag(tag) ==
  [id |-> tag.id, name |-> tag.name, moderated |-> tag.moderated,
   emoji_id |-> Coalesce(EmojiId(tag.emoji), "null"),
   emoji_name |-> Coalesce(EmojiName(tag.emoji), "null")]

\* Mutant of transformAPIGuildDefaultReaction: the two fields swapped.
transformAPIGuildDefaultReaction_Swapped(defaultReaction) ==
  [id |-> defaultReaction.emoji_name, name |-> defaultReaction.emoji_id]

\* Lines 134-139.
transformAPIGuildDefaultReaction(defaultReaction) ==
  [id |-> defaultReaction.emoji_id, name |-> defaultReaction.emoji_name]

\* Lines 148-153.
transformGuildDefaultReaction(defaultReaction) ==
  [emoji_id |-> defaultReaction.id, emoji_name |-> defaultReaction.name]

(***************************************************************************)
(* State.  call is the last call with its inputs, its result and the       *)
(* caches before it; prev is the call before that (kept by SpecPair only); *)
(* lastRegistered[g][id] is the identity built by the most recent call for *)
(* id in g that was made without asking for unknown-guild creation and     *)
(* that produced a guild-scoped instance (0: none yet).  xf is a record of  *)
(* transform applications: a wire or application value (from), the result  *)
(* of its transform and the result of transforming that back.              *)
(***************************************************************************)
EmptyCache == [id \in ChannelIds |-> Undefined]

NoData == [type |-> "Unknown", id |-> "undefined", guild_id |-> "undefined",
           recipients |-> "undefined", parent_id |-> "undefined"]

NoCall ==
  [made |-> FALSE, data |-> NoData, guild |-> "undefined", extras |-> NoExtras,
   channel |-> Undefined, outcome |-> "returned", constructed |-> 0,
   preGuildCache |-> [g \in CacheGuilds |-> EmptyCache],
   preThreadCache |-> [p \in ParentChannels |-> EmptyCache]]

\* The caller asked for creation from an unknown guild, under the documented
\* key or under the key the function reads.
AsksUnknownGuild(extras) ==
  extras.given /\ (extras.allowFromUnknownGuild = "true" \/ extras.allowUnknownGuild = "true")

\* No transform input.
NoXf == [kind |-> "none", from |-> "none", steps |-> 0]

Init ==
  /\ xf = NoXf
  /\ guildCache = [g \in CacheGuilds |-> EmptyCache]
  /\ threadCache = [p \in ParentChannels |-> EmptyCache]
  /\ nextRef = 1
  /\ call = NoCall
  /\ prev = NoCall
  /\ lastRegistered = [g \in CacheGuilds |-> [id \in ChannelIds |-> 0]]

\* One call of createChannel(client, data, guild, extras).
CreateChannel(data, guild, extras) ==
  LET r == createChannel(data, guild, extras, guildCache, threadCache, nextRef)
      g == ResolveGuild(data, guild)
  IN  /\ guildCache' = r.guildCache
      /\ threadCache' = r.threadCache
      /\ nextRef' = nextRef + 1
      /\ call' = [made |-> TRUE, data |-> data, guild |-> guild, extras |-> extras,
                  channel |-> r.channel, outcome |-> r.outcome, constructed |-> r.constructed,
                  preGuildCache |-> guildCache, preThreadCache |-> threadCache]
      /\ lastRegistered' =
           IF /\ r.channel.variant \in GuildVariants
              /\ ~AsksUnknownGuild(extras)
              /\ g \in CacheGuilds
           THEN [lastRegistered EXCEPT ![g] = [@ EXCEPT ![data.id] = r.channel.ref]]
           ELSE lastRegistered

(***************************************************************************)
(* Inputs.                                                                 *)
(***************************************************************************)
Recipients == {"undefined", "[]", "[u1]"}

Payloads ==
  [type : ChannelTypes, id : ChannelIds, guild_id : {"undefined", "g1", "g2", "gx"},
   recipients : Recipients, parent_id : {"undefined"} \cup ParentChannels]

GuildArgs == {"undefined"} \cup GuildObjects

ExtrasBags ==
  {NoExtras, Bag("true", "undefined"), Bag("false", "undefined"),
   Bag("undefined", "true"), Bag("undefined", "false")}

\* Spec: one call, on the freshly constructed client, over every input.
Next ==
  /\ ~call.made
  /\ \E data \in Payloads, guild \in GuildArgs, extras \in ExtrasBags :
       CreateChannel(data, guild, extras) /\ UNCHANGED <<prev, xf>>

Spec == Init /\ [][Next]_vars

\* SpecSeq: up to MaxCalls calls in sequence, over a smaller set of inputs.
MaxCalls == 2

SeqPayloads ==
  [type : {"GuildText", "PublicThread", "DM", "Unknown"}, id : ChannelIds,
   guild_id : {"undefined", "g1"}, recipients : {"undefined"},
   parent_id : {"undefined", "p1", "p2"}]

SeqGuildArgs == {"undefined", "g2"}

SeqExtrasBags == {NoExtras, Bag("true", "undefined"), Bag("undefined", "true")}

NextSeq ==
  /\ nextRef <= MaxCalls
  /\ \E data \in SeqPayloads, guild \in SeqGuildArgs, extras \in SeqExtrasBags :
       CreateChannel(data, guild, extras) /\ UNCHANGED <<prev, xf>>

SpecSeq == Init /\ [][NextSeq]_vars

\* SpecPair: two calls in sequence, the first kept in prev, over the inputs
\* that the choice of the variant can depend on.
PairPayloads ==
  [type : ChannelTypes, id : {"c1"}, guild_id : {"undefined", "g1", "gx"},
   recipients : Recipients, parent_id : {"undefined"}]

PairGuildArgs == {"undefined", "g2"}

PairExtrasBags == {NoExtras, Bag("undefined", "true")}

NextPair ==
  /\ ~prev.made
  /\ \E data \in PairPayloads, guild \in PairGuildArgs, extras \in PairExtrasBags :
       CreateChannel(data, guild, extras) /\ prev' = call /\ UNCHANGED xf

SpecPair == Init /\ [][NextPair]_vars

(***************************************************************************)
(* SpecTag: the transforms applied to every bounded input, and to the      *)
(* result again in the other direction.                                    *)
(***************************************************************************)
\* Values of emoji_id / emoji.id and of emoji_name / emoji.name: a missing key,
\* null, the empty string, and an ordinary value.
EmojiIds == {"undefined", "null", "", "e1"}

EmojiNames == {"undefined", "null", "", "smile"}

WireTags ==
  [id : {"t1", "t2"}, name : {"help"}, moderated : {"true", "false"},
   emoji_id : EmojiIds, emoji_name : EmojiNames]

AppEmojis ==
  {NullEmoji} \cup {EmojiObject(i, n) : i \in EmojiIds \ {"undefined"}, n \in EmojiNames \ {"undefined"}}

AppTags ==
  [id : {"t1", "t2"}, name : {"help"}, moderated : {"true", "false"}, emoji : AppEmojis]

WireReactions == [emoji_id : EmojiIds, emoji_name : EmojiNames]

AppReactions == [id : EmojiIds, name : EmojiNames]

XfInputs ==
  {[kind |-> "tag", from |-> "wire", steps |-> 0, wire |-> t] : t \in WireTags}
  \cup {[kind |-> "tag", from |-> "app", steps |-> 0, app |-> x] : x \in AppTags}
  \cup {[kind |-> "reaction", from |-> "wire", steps |-> 0, wire |-> r] : r \in WireReactions}
  \cup {[kind |-> "reaction", from |-> "app", steps |-> 0, app |-> a] : a \in AppReactions}

InitTag ==
  /\ xf \in XfInputs
  /\ guildCache = [g \in CacheGuilds |-> EmptyCache]
  /\ threadCache = [p \in ParentChannels |-> EmptyCache]
  /\ nextRef = 1
  /\ call = NoCall
  /\ prev = NoCall
  /\ lastRegistered = [g \in CacheGuilds |-> [id \in ChannelIds |-> 0]]

\* One application of f, to the input (wire |-> app) or to the result of the
\* other direction (app |-> wire |-> back).
TransformAPIGuildForumTag ==
  /\ xf.kind = "tag"
  /\ \/ /\ xf.from = "wire" /\ xf.steps = 0
        /\ xf' = [kind |-> "tag", from |-> "wire", steps |-> 1, wire |-> xf.wire,
                  app |-> transformAPIGuildForumTag(xf.wire)]
     \/ /\ xf.from = "app" /\ xf.steps = 1
        /\ xf' = [kind |-> "tag", from |-> "app", steps |-> 2, app |-> xf.app,
                  wire |-> xf.wire, back |-> transformAPIGuildForumTag(xf.wire)]
  /\ UNCHANGED <<guildCache, threadCache, nextRef, call, prev, lastRegistered>>

TransformGuildForumTag ==
  /\ xf.kind = "tag"
  /\ \/ /\ xf.from = "app" /\ xf.steps = 0
        /\ xf' = [kind |-> "tag", from |-> "app", steps |-> 1, app |-> xf.app,
                  wire |-> transformGuildForumTag(xf.app)]
     \/ /\ xf.from = "wire" /\ xf.steps = 1
        /\ xf' = [kind |-> "tag", from |-> "wire", steps |-> 2, wire |-> xf.wire,
                  app |-> xf.app, back |-> transformGuildForumTag(xf.app)]
  /\ UNCHANGED <<guildCache, threadCache, nextRef, call, prev, lastRegistered>>

TransformAPIGuildDefaultReaction ==
  /\ xf.kind = "reaction"
  /\ \/ /\ xf.from = "wire" /\ xf.steps = 0
        /\ xf' = [kind |-> "reaction", from |-> "wire", steps |-> 1, wire |-> xf.wire,
                  app |-> transformAPIGuildDefaultReaction(xf.wire)]
     \/ /\ xf.from = "app" /\ xf.steps = 1
        /\ xf' = [kind |-> "reaction", from |-> "app", steps |-> 2, app |-> xf.app,
                  wire |-> xf.wire, back |-> transformAPIGuildDefaultReaction(xf.wire)]
  /\ UNCHANGED <<guildCache, threadCache, nextRef, call, prev, lastRegistered>>

TransformGuildDefaultReaction ==
  /\ xf.kind = "reaction"
  /\ \/ /\ xf.from = "app" /\ xf.steps = 0
        /\ xf' = [kind |-> "reaction", from |-> "app", steps |-> 1, app |-> xf.app,
                  wire |-> transformGuildDefaultReaction(xf.app)]
     \/ /\ xf.from = "wire" /\ xf.steps = 1
        /\ xf' = [kind |-> "reaction", from |-> "wire", steps |-> 2, wire |-> xf.wire,
                  app |-> xf.app, back |-> transformGuildDefaultReaction(xf.app)]
  /\ UNCHANGED <<guildCache, threadCache, nextRef, call, prev, lastRegistered>>

NextTag ==
  \/ TransformAPIGuildForumTag
  \/ TransformGuildForumTag
  \/ TransformAPIGuildDefaultReaction
  \/ TransformGuildDefaultReaction

SpecTag == InitTag /\ [][NextTag]_vars

(***************************************************************************)
(* Properties.                                                             *)
(***************************************************************************)
\* The variant section 4.1 step 3 of the specification maps each guild-scoped
\* discriminator to.
MappedVariant ==
  [t \in GuildScopedTypes |->
     CASE t = "GuildText" -> "TextChannel"
       [] t = "GuildVoice" -> "VoiceChannel"
       [] t = "GuildCategory" -> "CategoryChannel"
       [] t = "GuildAnnouncement" -> "AnnouncementChannel"
       [] t = "GuildStageVoice" -> "StageChannel"
       [] t = "GuildDirectory" -> "DirectoryChannel"
       [] t = "GuildForum" -> "ForumChannel"
       [] t = "GuildMedia" -> "MediaChannel"
       [] OTHER -> "ThreadChannel"]

\* The guild of a call: the supplied one, else the one the client knows under
\* the payload's guild id, else none.
GuildOf(c) ==
  IF c.guild # "undefined" THEN c.guild
  ELSE IF c.data.guild_id \in ClientGuilds THEN c.data.guild_id ELSE "undefined"

\* A guild id in the payload, no guild supplied, and the lookup finds nothing.
UnresolvableGuild(c) ==
  c.guild = "undefined" /\ c.data.guild_id # "undefined" /\ c.data.guild_id \notin ClientGuilds

\* The parent channel of the call's thread payload, when it can be resolved.
ParentOf(c) ==
  IF /\ c.data.parent_id \in ParentChannels
     /\ GuildOf(c) \in CacheGuilds
     /\ ParentGuild(c.data.parent_id) = GuildOf(c)
  THEN c.data.parent_id
  ELSE "undefined"

\* The last call left every guild channel cache and every thread cache as it was.
CachesUnchanged ==
  guildCache = call.preGuildCache /\ threadCache = call.preThreadCache

\* C1: for every guild-scoped discriminator and a resolvable guild (supplied, or
\* found by the payload's guild id), the call returns an instance of exactly
\* the mapped variant, whose id is the payload's id.
C1_MappedVariantReturned ==
  (call.made /\ call.data.type \in GuildScopedTypes /\ GuildOf(call) # "undefined")
    => /\ call.outcome = "returned"
       /\ call.channel # Undefined
       /\ call.channel.variant = MappedVariant[call.data.type]
       /\ call.channel.id = call.data.id

C1_Witness ==
  /\ call.made
  /\ call.data.type = "GuildDirectory"
  /\ call.guild = "undefined"
  /\ call.data.guild_id = "g1"
  /\ call.channel.variant = "DirectoryChannel"
  /\ call.channel.id = "c2"

\* C2: for a guild-scoped discriminator with an unresolvable guild and the
\* option allowFromUnknownGuild set to true, the call returns an instance of the
\* mapped variant and mutates no cache.
C2_UnknownGuildAllowed ==
  (/\ call.made
   /\ call.data.type \in GuildScopedTypes
   /\ UnresolvableGuild(call)
   /\ AsksUnknownGuild(call.extras))
    => /\ call.outcome = "returned"
       /\ call.channel # Undefined
       /\ call.channel.variant = MappedVariant[call.data.type]
       /\ CachesUnchanged

\* C3: for a guild-scoped discriminator with an unresolvable guild and the
\* option unset or false, the call returns the absent result, constructs no
\* instance and leaves every cache unchanged.
C3_UnknownGuildAbsent ==
  (/\ call.made
   /\ call.data.type \in GuildScopedTypes
   /\ UnresolvableGuild(call)
   /\ ~AsksUnknownGuild(call.extras))
    => /\ call.outcome = "returned"
       /\ call.channel = Undefined
       /\ call.constructed = 0
       /\ CachesUnchanged

C3_Witness ==
  /\ call.made
  /\ call.data.type = "PublicThread"
  /\ call.data.guild_id = "gx"
  /\ call.guild = "undefined"
  /\ call.extras = Bag("false", "undefined")
  /\ call.channel = Undefined
  /\ call.constructed = 0

\* C4: the call never raises: whatever the payload, the supplied guild and the
\* options, it ends by returning an instance or the absent result.
C4_NeverRaises == call.made => call.outcome = "returned"

C4_Witness ==
  /\ call.made
  /\ call.data.type = "PrivateThread"
  /\ call.data.parent_id = "p1"
  /\ UnresolvableGuild(call)
  /\ call.extras = Bag("undefined", "true")
  /\ call.outcome = "returned"
  /\ call.channel.variant = "ThreadChannel"

\* C5: for a thread discriminator with a resolvable guild, a resolvable parent
\* channel and the option false, after the call the parent's thread cache maps
\* the new instance's id to the new instance, and so does the guild's channel
\* cache.
C5_ThreadRegistered ==
  (/\ call.made
   /\ call.data.type \in {"AnnouncementThread", "PublicThread", "PrivateThread"}
   /\ GuildOf(call) # "undefined"
   /\ ParentOf(call) # "undefined"
   /\ ~AsksUnknownGuild(call.extras))
    => /\ call.channel # Undefined
       /\ call.channel.ref = nextRef - 1
       /\ threadCache[ParentOf(call)][call.channel.id] = call.channel
       /\ guildCache[GuildOf(call)][call.channel.id] = call.channel

C5_Witness ==
  /\ call.made
  /\ call.data.type = "AnnouncementThread"
  /\ call.data.parent_id = "p3"
  /\ call.guild = "g2"
  /\ ~call.extras.given
  /\ threadCache["p3"]["c1"] = call.channel
  /\ guildCache["g2"]["c1"] = call.channel
  /\ call.channel.variant = "ThreadChannel"

\* C6: a guild-scoped instance produced with the option false is stored in the
\* guild's channel cache under its own id when the guild exposes a channel
\* cache; when the guild exposes none, the instance is still returned and
\* nothing is registered.
C6_GuildCacheRegistered ==
  (/\ call.made
   /\ call.data.type \in GuildScopedTypes
   /\ GuildOf(call) # "undefined"
   /\ ~AsksUnknownGuild(call.extras))
    => /\ call.channel.variant \in GuildVariants
       /\ GuildOf(call) \in CacheGuilds
            => guildCache[GuildOf(call)][call.channel.id] = call.channel
       /\ GuildOf(call) \notin CacheGuilds => CachesUnchanged

C6_Witness ==
  /\ call.made
  /\ call.guild = "g3"
  /\ call.data.type = "GuildVoice"
  /\ call.extras = Bag("undefined", "false")
  /\ call.channel.variant = "VoiceChannel"
  /\ CachesUnchanged

\* C7: a call mutates a cache only if it produced a guild-scoped instance and
\* the option is false: a call that returns absent, or a DM or Partial-Group-DM
\* instance, or that was made with the option true, leaves every cache unchanged.
C7_OnlyRegisteringCallsMutate ==
  (/\ call.made
   /\ \/ call.channel = Undefined
      \/ call.channel.variant \in UserVariants
      \/ AsksUnknownGuild(call.extras))
    => CachesUnchanged

\* C8: with no guild id and no supplied guild, a payload with recipients and a
\* discriminator other than group-DM yields a DM instance, and a group-DM
\* discriminator yields a Partial-Group-DM instance, with or without recipients.
C8_UserScopedVariants ==
  (call.made /\ call.data.guild_id = "undefined" /\ call.guild = "undefined")
    => /\ (call.data.recipients # "undefined" /\ call.data.type # "GroupDM")
            => call.channel.variant = "DMChannel"
       /\ call.data.type = "GroupDM"
            => call.channel.variant = "PartialGroupDMChannel"

C8_Witness ==
  /\ call.made
  /\ call.data.guild_id = "undefined"
  /\ call.guild = "undefined"
  /\ call.data.recipients = "[u1]"
  /\ call.data.type = "GroupDM"
  /\ call.channel.variant = "PartialGroupDMChannel"

\* C9: last write wins: after any sequence of calls, the slot of an id in a
\* guild's channel cache holds the instance built by the most recent call for
\* that id in that guild that produced a guild-scoped instance with the option
\* false, and that call's instance is a new one, distinct from the one the slot
\* held before.
C9_LastWriteWins ==
  /\ \A g \in CacheGuilds, id \in ChannelIds :
       lastRegistered[g][id] # 0 => guildCache[g][id].ref = lastRegistered[g][id]
  /\ (/\ call.made
      /\ call.channel.variant \in GuildVariants
      /\ ~AsksUnknownGuild(call.extras)
      /\ GuildOf(call) \in CacheGuilds
      /\ call.preGuildCache[GuildOf(call)][call.data.id] # Undefined)
       => /\ call.channel.ref # call.preGuildCache[GuildOf(call)][call.data.id].ref
          /\ guildCache[GuildOf(call)][call.data.id] = call.channel

\* Two calls agree on the presence of a guild id, the presence of recipients
\* and the discriminator.
SameThreeInputs(a, b) ==
  /\ (a.data.guild_id = "undefined") = (b.data.guild_id = "undefined")
  /\ (a.data.recipients = "undefined") = (b.data.recipients = "undefined")
  /\ a.data.type = b.data.type

BothProduced == prev.made /\ call.made /\ prev.channel # Undefined /\ call.channel # Undefined

\* C10 as stated: the variant is a function of only the presence of a guild id,
\* the presence of recipients and the discriminator: two calls that agree on
\* these and both produce an instance produce the same variant; and a call
\* constructs at most one instance.
C10_VariantOfThreeInputs ==
  /\ (BothProduced /\ SameThreeInputs(prev, call))
       => prev.channel.variant = call.channel.variant
  /\ call.made => call.constructed <= 1

\* C10 as amended: the variant is a function of the presence of a guild id, the
\* presence of recipients, the discriminator and whether a guild is supplied.
C10_VariantOfFourInputs ==
  /\ (/\ BothProduced
      /\ SameThreeInputs(prev, call)
      /\ (prev.guild = "undefined") = (call.guild = "undefined"))
       => prev.channel.variant = call.channel.variant
  /\ call.made => call.constructed <= 1

C10_Witness ==
  /\ BothProduced
  /\ prev.data.type = "GuildText" /\ call.data.type = "GuildText"
  /\ prev.data.guild_id = "gx" /\ call.data.guild_id = "g1"
  /\ prev.data.recipients = "[]" /\ call.data.recipients = "[u1]"
  /\ prev.guild = "undefined" /\ call.guild = "undefined"
  /\ prev.extras = Bag("undefined", "true") /\ ~call.extras.given
  /\ prev.channel.variant = "TextChannel" /\ call.channel.variant = "TextChannel"
  /\ call.constructed = 1

\* C11: a supplied guild is used and the payload's guild id ignored: the
\* instance is constructed with the supplied guild and registered into its
\* channel cache only, the cache of every other guild staying unchanged (also
\* of the guild the payload's guild id names); the lookup by guild id decides
\* the guild only when no guild is supplied.
C11_SuppliedGuildWins ==
  call.made =>
    /\ call.guild # "undefined" =>
         /\ call.channel # Undefined => call.channel.guild = call.guild
         /\ \A g \in CacheGuilds \ {call.guild} : guildCache[g] = call.preGuildCache[g]
         /\ (/\ call.guild \in CacheGuilds
             /\ call.data.type \in GuildScopedTypes
             /\ ~AsksUnknownGuild(call.extras))
              => guildCache[call.guild][call.data.id] = call.channel
    /\ (call.guild = "undefined" /\ call.data.guild_id \in ClientGuilds) =>
         /\ call.channel # Undefined => call.channel.guild = call.data.guild_id
         /\ \A g \in CacheGuilds \ {call.data.guild_id} : guildCache[g] = call.preGuildCache[g]

C11_Witness ==
  /\ call.made
  /\ call.guild = "g1"
  /\ call.data.guild_id = "g2"
  /\ call.data.type = "GuildForum"
  /\ ~call.extras.given
  /\ call.channel.guild = "g1"
  /\ guildCache["g1"][call.data.id] = call.channel
  /\ guildCache["g2"] = call.preGuildCache["g2"]

\* C12: a DM or Partial-Group-DM instance is constructed only when no guild
\* context exists: when the payload carries a guild id or a guild is supplied,
\* the call never returns a user-scoped variant, and a DM or group-DM
\* discriminator then yields the absent result.
C12_UserScopedOnlyWithoutGuild ==
  (call.made /\ (call.data.guild_id # "undefined" \/ call.guild # "undefined"))
    => /\ call.channel.variant \notin UserVariants
       /\ call.data.type \in {"DM", "GroupDM"}
            => (call.channel = Undefined /\ call.constructed = 0)

C12_Witness ==
  /\ call.made
  /\ call.data.guild_id = "undefined"
  /\ call.guild = "g2"
  /\ call.data.type = "DM"
  /\ call.data.recipients = "[u1]"
  /\ call.channel = Undefined

\* C13: when the switch is reached (a guild id or a supplied guild, and the
\* guild resolved or unknown-guild creation asked for), a discriminator that is
\* none of the eleven guild-scoped cases yields the absent result: no
\* constructor runs and the call returns.
C13_UnrecognizedYieldsAbsent ==
  (/\ call.made
   /\ (call.data.guild_id # "undefined" \/ call.guild # "undefined")
   /\ (GuildOf(call) # "undefined" \/ AsksUnknownGuild(call.extras))
   /\ call.data.type \notin GuildScopedTypes)
    => /\ call.channel = Undefined
       /\ call.constructed = 0
       /\ call.outcome = "returned"
       /\ CachesUnchanged

C13_Witness ==
  /\ call.made
  /\ call.data.type = "Unknown"
  /\ UnresolvableGuild(call)
  /\ call.extras = Bag("undefined", "true")
  /\ call.channel = Undefined
  /\ call.outcome = "returned"

\* C14: transformAPIGuildForumTag returns a non-null emoji exactly when at
\* least one of emoji_id and emoji_name is non-null in the wire tag, whatever
\* the two values are (an empty-string emoji_id with a populated emoji_name
\* included), and the emoji's id and name are then emoji_id and emoji_name.
C14_EmojiIffEitherPresent ==
  (xf.kind = "tag" /\ xf.from = "wire" /\ xf.steps >= 1)
    => /\ (xf.app.emoji.kind = "object")
            <=> (~Nullish(xf.wire.emoji_id) \/ ~Nullish(xf.wire.emoji_name))
       /\ xf.app.emoji.kind = "object"
            => /\ xf.app.emoji.id = xf.wire.emoji_id
               /\ xf.app.emoji.name = xf.wire.emoji_name

\* A populated field: neither missing, nor null, nor empty.
Populated(v) == v \notin {"undefined", "null", ""}

\* C15: wire round trip: transformGuildForumTag(transformAPIGuildForumTag(t))
\* equals t when emoji_id and emoji_name are both populated; when both are null
\* or both are absent, the result has emoji_id null and emoji_name null, with
\* id, name and moderated unchanged.
C15_WireRoundTrip ==
  (xf.kind = "tag" /\ xf.from = "wire" /\ xf.steps = 2)
    => /\ (Populated(xf.wire.emoji_id) /\ Populated(xf.wire.emoji_name))
            => xf.back = xf.wire
       /\ (\/ xf.wire.emoji_id = "null" /\ xf.wire.emoji_name = "null"
           \/ xf.wire.emoji_id = "undefined" /\ xf.wire.emoji_name = "undefined")
            => /\ xf.back.emoji_id = "null"
               /\ xf.back.emoji_name = "null"
               /\ xf.back.id = xf.wire.id
               /\ xf.back.name = xf.wire.name
               /\ xf.back.moderated = xf.wire.moderated

C15_Witness ==
  /\ xf.kind = "tag" /\ xf.from = "wire" /\ xf.steps = 2
  /\ xf.wire.emoji_id = "e1" /\ xf.wire.emoji_name = "smile"
  /\ xf.wire.id = "t2" /\ xf.wire.moderated = "true"
  /\ xf.app.emoji = EmojiObject("e1", "smile")
  /\ xf.back = xf.wire

\* C16: application round trip: transformAPIGuildForumTag(transformGuildForumTag(x))
\* equals x for every application tag x whose emoji is null or an {id, name}
\* object, an object with a null id and a name, or with both null, included.
C16_AppRoundTrip ==
  (xf.kind = "tag" /\ xf.from = "app" /\ xf.steps = 2) => xf.back = xf.app

\* C17: the default-reaction transforms are 1:1 renamings and mutual inverses
\* with no null collapse: each copies the two fields under the other names,
\* and either round trip gives back the record it started from.
C17_ReactionRenaming ==
  /\ (xf.kind = "reaction" /\ xf.from = "wire" /\ xf.steps >= 1)
       => /\ xf.app.id = xf.wire.emoji_id
          /\ xf.app.name = xf.wire.emoji_name
  /\ (xf.kind = "reaction" /\ xf.from = "app" /\ xf.steps >= 1)
       => /\ xf.wire.emoji_id = xf.app.id
          /\ xf.wire.emoji_name = xf.app.name
  /\ (xf.kind = "reaction" /\ xf.steps = 2)
       => IF xf.from = "wire" THEN xf.back = xf.wire ELSE xf.back = xf.app

C17_Witness ==
  /\ xf.kind = "reaction" /\ xf.from = "wire" /\ xf.steps = 2
  /\ xf.wire = [emoji_id |-> "null", emoji_name |-> "smile"]
  /\ xf.app = [id |-> "null", name |-> "smile"]
  /\ xf.back = xf.wire

\* C18: a thread is registered into a thread cache only if its parent channel
\* is resolvable: for a thread discriminator with a resolved guild, the option
\* false and no resolvable parent, the call returns the new thread, stores it
\* in the channel cache of the guild (where the guild exposes one, C6) and
\* leaves every thread cache as it was; and a call with a discriminator that
\* is no thread discriminator leaves every thread cache as it was.
C18_ThreadNeedsParent ==
  /\ (/\ call.made
      /\ call.data.type \in {"AnnouncementThread", "PublicThread", "PrivateThread"}
      /\ GuildOf(call) # "undefined"
      /\ ~AsksUnknownGuild(call.extras)
      /\ ParentOf(call) = "undefined")
       => /\ call.channel.variant = "ThreadChannel"
          /\ call.channel.ref = nextRef - 1
          /\ GuildOf(call) \in CacheGuilds
               => guildCache[GuildOf(call)][call.channel.id] = call.channel
          /\ threadCache = call.preThreadCache
  /\ (/\ call.made
      /\ call.data.type \notin {"AnnouncementThread", "PublicThread", "PrivateThread"})
       => threadCache = call.preThreadCache

C18_Witness ==
  /\ call.made
  /\ call.data.type = "PublicThread"
  /\ call.data.guild_id = "g1"
  /\ call.guild = "undefined"
  /\ call.data.parent_id = "p3"
  /\ call.extras = Bag("undefined", "false")
  /\ call.channel.variant = "ThreadChannel"
  /\ guildCache["g1"][call.data.id] = call.channel
  /\ threadCache = call.preThreadCache

\* C19: with no guild id in the payload, no supplied guild and no recipients
\* field, the call returns a DM instance exactly when the discriminator is DM,
\* a Partial-Group-DM instance exactly when it is group-DM, and the absent
\* result for every other discriminator, whatever the options bag holds.
C19_BareUserScoped ==
  (/\ call.made
   /\ call.data.guild_id = "undefined"
   /\ call.guild = "undefined"
   /\ call.data.recipients = "undefined")
    => /\ call.outcome = "returned"
       /\ call.channel.variant = "DMChannel" <=> call.data.type = "DM"
       /\ call.channel.variant = "PartialGroupDMChannel" <=> call.data.type = "GroupDM"
       /\ call.data.type \notin {"DM", "GroupDM"} => call.channel = Undefined

C19_Witness ==
  /\ call.made
  /\ call.data.guild_id = "undefined"
  /\ call.guild = "undefined"
  /\ call.data.recipients = "undefined"
  /\ call.data.type = "GuildText"
  /\ call.extras = Bag("undefined", "true")
  /\ call.channel = Undefined

\* C20: createChannel only inserts: in any sequence of calls no key is removed
\* from a guild channel cache or a thread cache, and the slots a call changes
\* are at most the slot of the guild's channel cache and the slot of the
\* parent's thread cache under the id of the instance it returns, both then
\* holding that instance; every slot under another key, in another guild or
\* under another parent channel is as it was before the call.
C20_OnlyInserts ==
  call.made =>
    /\ \A g \in CacheGuilds, id \in ChannelIds :
         /\ call.preGuildCache[g][id] # Undefined => guildCache[g][id] # Undefined
         /\ guildCache[g][id] # call.preGuildCache[g][id]
              => /\ call.channel # Undefined
                 /\ g = GuildOf(call)
                 /\ id = call.channel.id
                 /\ guildCache[g][id] = call.channel
    /\ \A p \in ParentChannels, id \in ChannelIds :
         /\ call.preThreadCache[p][id] # Undefined => threadCache[p][id] # Undefined
         /\ threadCache[p][id] # call.preThreadCache[p][id]
              => /\ call.channel # Undefined
                 /\ p = ParentOf(call)
                 /\ id = call.channel.id
                 /\ threadCache[p][id] = call.channel

C20_Witness ==
  /\ call.made
  /\ call.data.type = "PublicThread"
  /\ call.data.id = "c2"
  /\ call.data.guild_id = "g1"
  /\ call.data.parent_id = "p1"
  /\ call.preGuildCache["g1"]["c1"] # Undefined
  /\ call.preThreadCache["p1"]["c1"] # Undefined
  /\ call.preGuildCache["g1"]["c2"] = Undefined
  /\ guildCache["g1"]["c1"] = call.preGuildCache["g1"]["c1"]
  /\ threadCache["p1"]["c1"] = call.preThreadCache["p1"]["c1"]
  /\ guildCache["g1"]["c2"] = call.channel
  /\ threadCache["p1"]["c2"] = call.channel

\* C21: cache consistency after any sequence of calls on one guild: whenever
\* the thread cache of a parent channel holds an instance under an id, the
\* channel cache of the parent's guild holds that same instance under that id,
\* and no other parent channel of that guild holds the id in its thread cache.
C21_CachesConsistent ==
  \A p \in ParentChannels, k \in ChannelIds :
    threadCache[p][k] # Undefined
      => /\ guildCache[ParentGuild(p)][k] = threadCache[p][k]
         /\ \A q \in ParentChannels \ {p} :
              ParentGuild(q) = ParentGuild(p) => threadCache[q][k] = Undefined

====
